---- MODULE Spec2Model ----
(***************************************************************************)
(* The dual-session streaming orchestrator of the AI companion client:     *)
(* the AssistantScreen component (its [user] effect and cleanup, the mute  *)
(* and camera effects, handleLogout), the useMicrophone / useCamera /      *)
(* useAudio hooks it drives, and the two WebSockets it owns.               *)
(*                                                                         *)
(* The event loop is single threaded: every action below is one callback   *)
(* (or one synchronous stretch of an async function between two awaits)    *)
(* run to completion.  The platform is the environment: it decides when a  *)
(* connection opens, fails or closes, when a message, a microphone frame   *)
(* or a timer tick is delivered, and when a pending device acquisition     *)
(* resolves.  An open or message event that was already on its way when    *)
(* close() was called may still be delivered afterwards (the socket is     *)
(* then CLOSING): this is the case the handlers' isCleanedUpRef checks     *)
(* exist for.                                                              *)
(***************************************************************************)
EXTENDS Integers, Sequences, FiniteSets, TLC

\* ------------------------------------------------------------- bounds
\* Length of the behaviours explored: the number of callbacks run.
MaxSteps == 7
\* Number of start() calls of the library-style specification.
MaxCalls == 2

VARIABLES
    mode,                \* AppContext: 'assistant' (AssistantScreen mounted) or 'login'
    isMuted,             \* AppContext
    isCameraOn,          \* AppContext
    aiState,             \* AppContext: Activity State
    cognitionStatus,     \* AssistantScreen state
    socks,               \* every WebSocket ever created, in creation order
    sessions,            \* every run of the [user] effect: what its closures captured
    audioWsRef,          \* index into socks, 0 for null
    cognitionWsRef,      \* index into socks, 0 for null
    frameIntervalRef,    \* index into timers, 0 for null
    isCleanedUpRef,
    intentionalCloseRef,
    timers,              \* every setInterval of the Frame Sampler
    reverts,             \* pending setTimeout(() => setAiState('listening')) callbacks,
                         \* each named by the number of the event that scheduled it
    lastEvent,           \* the latest inbound event that set aiState: its number and kind (history)
    mics,                \* every startMicrophone call
    micRefs,             \* useMicrophone: sourceRef, workletNodeRef, audioContextRef, streamRef
    micActive,           \* useMicrophone: isActive
    cams,                \* every startCamera call
    camStreamRef,        \* useCamera: streamRef, index into cams, 0 for null
    videoSrc,            \* srcObject of the <video> element, index into cams, 0 for null
    camActive,           \* useCamera: isActive
    outCtx,              \* useAudio: audioContextRef, "null" or "running"
    activeSources,       \* useAudio: number of sources in activeSourcesRef
    outCloses,           \* number of playback contexts closed so far
    isPlaying,           \* useAudio: isPlaying
    prev,                \* the operation of the last step (history)
    steps,               \* callbacks run so far
    \* useAudio on its own (the Playback Scheduler); times are in units of 0.1 s
    playCtxs,            \* every output AudioContext ever created: state, sampleRate, currentTime
    playCtxRef,          \* audioContextRef: index into playCtxs, 0 for null
    nextStartTimeRef,    \* the playback cursor
    chunkLog,            \* every chunk scheduled with source.start, in scheduling order
    activeSourcesRef,    \* indices into chunkLog
    pendingPlays,        \* playAudio calls awaiting audioContext.resume(), in call order
    playing,             \* useAudio: isPlaying
    nchunks,             \* playAudio calls so far
    \* AudioProcessor on its own (the encoder); samples are in tenths
    inputData,           \* the Float32 samples of the last process() call
    int16Data,           \* the Int16Array it posted
    \* one session statement by statement (the order of acquisitions and releases)
    acquired,            \* the resources the session asked for, in the order of the calls
    pendingAcq,          \* the device acquisitions whose getUserMedia has not resolved
    released,            \* the resources the cleanup released, in the order of the calls
    cleanupPc            \* the number of statements of the cleanup function executed

screenVars == << mode, isMuted, isCameraOn, aiState, cognitionStatus, socks, sessions,
           audioWsRef, cognitionWsRef, frameIntervalRef, isCleanedUpRef,
           intentionalCloseRef, timers, reverts, lastEvent, mics, micRefs, micActive,
           cams, camStreamRef, videoSrc, camActive, outCtx, activeSources, outCloses,
           isPlaying, prev, steps >>

playVars == << playCtxs, playCtxRef, nextStartTimeRef, chunkLog, activeSourcesRef,
              pendingPlays, playing, nchunks >>

\* The encoder of the microphone worklet.
encVars == << inputData, int16Data >>

\* The session followed statement by statement.
orderVars == << acquired, pendingAcq, released, cleanupPc >>

\* The hooks specified on their own keep their state out of the screen's.
hookVars == << playVars, encVars, orderVars >>

vars == << screenVars, hookVars >>

appVars   == << mode, isMuted, isCameraOn >>
sockVars  == << socks, sessions, audioWsRef, cognitionWsRef, isCleanedUpRef,
                intentionalCloseRef, cognitionStatus >>
timerVars == << timers, frameIntervalRef >>
micVars   == << mics, micRefs, micActive >>
camVars   == << cams, camStreamRef, videoSrc, camActive >>
outVars   == << outCtx, activeSources, outCloses, isPlaying >>
aiVars    == << aiState, reverts, lastEvent >>

\* ------------------------------------------------------ the WebSocket
\* readyState of a socket reference (0 is the null reference).
ReadyState(ss, s) == IF s = 0 THEN "none" ELSE ss[s].readyState

\* new WebSocket(url): the socket starts CONNECTING.  opened tells whether the
\* open callback has run ("yes": the socket became OPEN; "late": it had been
\* closed while CONNECTING) and openedIn during which run of the [user] effect.
NewSocket(kind, k) ==
    [kind |-> kind, sess |-> k, readyState |-> "CONNECTING", opened |-> "no",
     openedIn |-> 0, sent |-> << >>, closeCalls |-> 0]

\* WebSocket.send throws InvalidStateError while CONNECTING.
SendThrows(ss, s) == ss[s].readyState = "CONNECTING"

\* WebSocket.send: transmitted when OPEN, silently discarded when CLOSING or CLOSED.
Send(ss, s, m) ==
    IF ss[s].readyState = "OPEN"
    THEN [ss EXCEPT ![s].sent = Append(@, m)]
    ELSE ss

\* WebSocket.close(): CONNECTING or OPEN becomes CLOSING, otherwise nothing happens.
Close(ss, s) ==
    [ss EXCEPT ![s].readyState = IF @ \in {"CONNECTING", "OPEN"} THEN "CLOSING" ELSE @,
               ![s].closeCalls = @ + 1]

\* ------------------------------------------------------ useMicrophone
NullMicRefs == [source |-> 0, worklet |-> 0, ctx |-> 0, stream |-> 0]

\* The call of startMicrophone up to its first await (getUserMedia pending).
\* sink is the onData callback: "onopen" closes over the socket sock,
\* "toggle" reads audioWsRef when it runs.
NewMic(sink, sock) ==
    [stage |-> "gum", sink |-> sink, sock |-> sock, tracks |-> "none",
     ctx |-> "none", wired |-> FALSE, nstop |-> 0, nclose |-> 0]

StartMicrophone(ms, sink, sock) == Append(ms, NewMic(sink, sock))

\* stopMicrophone: the four refs are released one by one and nulled.
StopMicrophone(ms, refs) ==
    LET m1 == IF refs.source # 0 THEN [ms EXCEPT ![refs.source].wired = FALSE] ELSE ms
        m2 == IF refs.worklet # 0 THEN [m1 EXCEPT ![refs.worklet].wired = FALSE] ELSE m1
        m3 == IF refs.ctx # 0
              THEN [m2 EXCEPT ![refs.ctx].ctx = "closed", ![refs.ctx].nclose = @ + 1]
              ELSE m2
        m4 == IF refs.stream # 0
              THEN [m3 EXCEPT ![refs.stream].tracks = "stopped", ![refs.stream].nstop = @ + 1]
              ELSE m3
    IN  m4

\* ---------------------------------------------------------- useCamera
\* The call of startCamera up to its first await (getUserMedia pending).
NewCam == [stage |-> "gum", tracks |-> "none", nstop |-> 0]

\* Is the <video> element rendered (videoRef.current non-null)?
VideoMounted(md, cam) == md = "assistant" /\ cam

\* stopCamera, on the cams array.
StopCameraCams(cs, ref) ==
    IF ref # 0 THEN [cs EXCEPT ![ref].tracks = "stopped", ![ref].nstop = @ + 1] ELSE cs

\* stopCamera, on isActive: set to false only when a stream was held.
StopCameraActive(act, ref) == IF ref # 0 THEN FALSE ELSE act

\* stopCamera, on the video element's srcObject.
StopCameraVideo(src, ref, mounted) == IF ref # 0 /\ mounted THEN 0 ELSE src

\* The history variable prev names the last operation when it is a start, a
\* cleanup (k: the run of the effect; again: the step before was the same
\* operation), a logout, an inbound message ("unrecognised" when it does not
\* parse or is of no known kind, "memory_stored" when it is that event) or a
\* socket error (k: the socket),
\* a microphone frame (k: the microphone) or a tick of the Frame Sampler (k:
\* the timer).
Other == [op |-> "other", k |-> 0, again |-> FALSE]

\* No inbound event has set aiState yet.
NoEvent == [n |-> 0, kind |-> "none"]

\* One more callback is run.
Tick == steps < MaxSteps /\ steps' = steps + 1

\* Before the [user] effect has run: nothing acquired, nothing released.
InitOrder ==
    /\ acquired = << >>
    /\ pendingAcq = {}
    /\ released = << >>
    /\ cleanupPc = 0

\* AudioProcessor before its first process() call: no frame, nothing posted.
InitEncoder == inputData = << >> /\ int16Data = << >>

\* useAudio before its first playAudio call.
InitPlayback ==
    /\ playCtxs = << >>
    /\ playCtxRef = 0
    /\ nextStartTimeRef = 0
    /\ chunkLog = << >>
    /\ activeSourcesRef = {}
    /\ pendingPlays = << >>
    /\ playing = FALSE
    /\ nchunks = 0

\* AssistantScreen is about to be mounted.  The mute and camera settings live in
\* AppContext, which outlives the screen: they are what an earlier mount left.
Mount ==
    /\ mode = "assistant"
    /\ isMuted \in BOOLEAN
    /\ isCameraOn \in BOOLEAN
    /\ cognitionStatus = "disconnected"
    /\ socks = << >>
    /\ sessions = << >>
    /\ audioWsRef = 0
    /\ cognitionWsRef = 0
    /\ frameIntervalRef = 0
    /\ isCleanedUpRef = FALSE
    /\ intentionalCloseRef = FALSE
    /\ timers = << >>
    /\ reverts = {}
    /\ lastEvent = NoEvent
    /\ mics = << >>
    /\ micRefs = NullMicRefs
    /\ micActive = FALSE
    /\ cams = << >>
    /\ camStreamRef = 0
    /\ videoSrc = 0
    /\ camActive = FALSE
    /\ outCtx = "null"
    /\ activeSources = 0
    /\ outCloses = 0
    /\ isPlaying = FALSE
    /\ steps = 0
    /\ prev = Other
    /\ InitPlayback
    /\ InitOrder

\* The first mount: aiState has the initial value AppProvider gave it.
Init == aiState = "listening" /\ Mount /\ InitEncoder

\* A mount after a logout.  aiState lives in AppContext too, and neither
\* handleLogout nor the cleanup nor the [user] effect assigns it: it is what the
\* earlier session left, 'thinking' when the last event was a state_update.
InitAfterLogout == aiState \in {"listening", "thinking"} /\ Mount /\ InitEncoder


\* ----------------------------------------------- AssistantScreen: start
\* The StrictMode guard of the [user] effect: the effect returns early when a
\* socket is referenced and one of the two referenced sockets is OPEN.
StartSkips ==
    /\ audioWsRef # 0 \/ cognitionWsRef # 0
    /\ \/ ReadyState(socks, audioWsRef) = "OPEN"
       \/ ReadyState(socks, cognitionWsRef) = "OPEN"

\* What a run of the [user] effect leaves behind: the values its closures
\* captured from the render (isMuted, isCameraOn), the two sockets it created
\* (0, 0 when the guard returned early: that run has no cleanup function), and
\* whether its cleanup function has been called.
NewSession(a, c) ==
    [muted |-> isMuted, cam |-> isCameraOn, aws |-> a, cws |-> c, cleaned |-> FALSE]

\* The body of the [user] effect (user is set whenever the screen is mounted).
UserEffect ==
    LET k == Len(sessions) + 1
        a == Len(socks) + 1
        c == Len(socks) + 2
    IN  /\ isCleanedUpRef' = FALSE
        /\ intentionalCloseRef' = FALSE
        /\ IF StartSkips
           THEN /\ sessions' = Append(sessions, NewSession(0, 0))
                /\ UNCHANGED << socks, audioWsRef, cognitionWsRef >>
           ELSE /\ socks' = socks \o << NewSocket("audio", k), NewSocket("cognition", k) >>
                /\ audioWsRef' = a
                /\ cognitionWsRef' = c
                /\ sessions' = Append(sessions, NewSession(a, c))

\* The run of the [user] effect whose cleanup is still to come, 0 when there is none.
LiveRun(ses) ==
    IF ses # << >> /\ ~ses[Len(ses)].cleaned /\ ses[Len(ses)].aws # 0 THEN Len(ses) ELSE 0

\* The [isCameraOn] effect: startCamera (up to its first await) or stopCamera
\* (the <video> element is not rendered when isCameraOn is false).
CameraEffect(on) ==
    IF on
    THEN /\ cams' = Append(cams, NewCam)
         /\ UNCHANGED << camStreamRef, videoSrc, camActive >>
    ELSE /\ cams' = StopCameraCams(cams, camStreamRef)
         /\ camStreamRef' = 0
         /\ camActive' = StopCameraActive(camActive, camStreamRef)
         /\ videoSrc' = 0

\* The [isMuted] effect without the stopMicrophone call.
MuteEffectKeepsMicrophone(muted, ss, aref) ==
    IF muted
    THEN UNCHANGED << mics, micRefs, micActive >>
    ELSE /\ mics' = IF ReadyState(ss, aref) = "OPEN"
                    THEN StartMicrophone(mics, "toggle", 0)
                    ELSE mics
         /\ UNCHANGED << micRefs, micActive >>

\* The [isMuted] effect: stopMicrophone, or startMicrophone (up to its first
\* await) when the referenced Audio Session socket is OPEN.
MuteEffect(muted, ss, aref) ==
    IF muted
    THEN /\ mics' = StopMicrophone(mics, micRefs)
         /\ micRefs' = NullMicRefs
         /\ micActive' = FALSE
    ELSE /\ mics' = IF ReadyState(ss, aref) = "OPEN"
                    THEN StartMicrophone(mics, "toggle", 0)
                    ELSE mics
         /\ UNCHANGED << micRefs, micActive >>

\* start(): the effects of one commit of AssistantScreen, in declaration order.
Start ==
    /\ mode = "assistant"
    /\ UserEffect
    /\ CameraEffect(isCameraOn)
    /\ MuteEffect(isMuted, socks', audioWsRef')
    /\ prev' = [op |-> "start", k |-> Len(sessions) + 1, again |-> prev.op = "start"]
    /\ Tick
    /\ UNCHANGED hookVars
    /\ UNCHANGED << appVars, aiVars, cognitionStatus, timerVars, outVars >>

\* ------------------------------------------------- socket open callbacks
\* audioWs.onopen without the Session Identity send.
AudioOnOpenNoIdentity(ss, s, k) ==
    IF isCleanedUpRef
    THEN /\ intentionalCloseRef' = TRUE
         /\ socks' = Close(ss, s)
         /\ UNCHANGED << mics, timerVars >>
    ELSE /\ socks' = ss
         /\ mics' = IF ~sessions[k].muted THEN StartMicrophone(mics, "onopen", s) ELSE mics
         /\ timers' = Append(timers, [sock |-> s, sess |-> k, active |-> TRUE])
         /\ frameIntervalRef' = Len(timers) + 1
         /\ UNCHANGED intentionalCloseRef

\* audioWs.onopen starting the microphone and the Frame Sampler only once the
\* Cognition Session socket is OPEN.
AudioOnOpenAfterCognition(ss, s, k) ==
    IF isCleanedUpRef
    THEN /\ intentionalCloseRef' = TRUE
         /\ socks' = Close(ss, s)
         /\ UNCHANGED << mics, timerVars >>
    ELSE IF ReadyState(ss, cognitionWsRef) # "OPEN"
    THEN /\ socks' = Send(ss, s, "identity")
         /\ UNCHANGED << mics, timerVars, intentionalCloseRef >>
    ELSE /\ socks' = Send(ss, s, "identity")
         /\ mics' = IF ~sessions[k].muted THEN StartMicrophone(mics, "onopen", s) ELSE mics
         /\ timers' = Append(timers, [sock |-> s, sess |-> k, active |-> TRUE])
         /\ frameIntervalRef' = Len(timers) + 1
         /\ UNCHANGED intentionalCloseRef

\* audioWs.onopen of the socket s created by session k.
AudioOnOpen(ss, s, k) ==
    IF isCleanedUpRef
    THEN /\ intentionalCloseRef' = TRUE
         /\ socks' = Close(ss, s)
         /\ UNCHANGED << mics, timerVars >>
    ELSE /\ socks' = Send(ss, s, "identity")
         /\ mics' = IF ~sessions[k].muted THEN StartMicrophone(mics, "onopen", s) ELSE mics
         /\ timers' = Append(timers, [sock |-> s, sess |-> k, active |-> TRUE])
         /\ frameIntervalRef' = Len(timers) + 1
         /\ UNCHANGED intentionalCloseRef

\* cognitionWs.onopen of the socket s.
CognitionOnOpen(ss, s) ==
    IF isCleanedUpRef
    THEN /\ intentionalCloseRef' = TRUE
         /\ socks' = Close(ss, s)
         /\ UNCHANGED cognitionStatus
    ELSE /\ socks' = Send(ss, s, "identity")
         /\ cognitionStatus' = "connected"
         /\ UNCHANGED intentionalCloseRef

\* The platform delivers the open event of socket s: a CONNECTING socket becomes
\* OPEN; a socket closed while CONNECTING stays CLOSING (the open was under way).
SockOpen(s) ==
    /\ socks[s].opened = "no"
    /\ socks[s].readyState \in {"CONNECTING", "CLOSING"}
    /\ LET ss == [socks EXCEPT ![s].opened = IF socks[s].readyState = "CONNECTING"
                                             THEN "yes" ELSE "late",
                               ![s].openedIn = Len(sessions),
                               ![s].readyState = IF @ = "CONNECTING" THEN "OPEN" ELSE @]
       IN  IF socks[s].kind = "audio"
           THEN /\ AudioOnOpen(ss, s, socks[s].sess)
                /\ UNCHANGED cognitionStatus
           ELSE /\ CognitionOnOpen(ss, s)
                /\ UNCHANGED << mics, timerVars >>
    /\ prev' = Other
    /\ Tick
    /\ UNCHANGED hookVars
    /\ UNCHANGED << appVars, aiVars, sessions, audioWsRef, cognitionWsRef, isCleanedUpRef,
                    micRefs, micActive, camVars, outVars >>

\* --------------------------------------------- AssistantScreen: teardown
\* The socket part of the cleanup without its readyState check.
CleanupSocketUnguarded(ss, s, envelope) == Close(Send(ss, s, envelope), s)

\* The socket part of the cleanup that leaves a CONNECTING socket alone.
CleanupSocketOpenOnly(ss, s, envelope) ==
    IF ss[s].readyState = "OPEN" THEN Close(Send(ss, s, envelope), s) ELSE ss

\* The socket part of the cleanup without the close() call.
CleanupSocketSendsOnly(ss, s, envelope) ==
    IF ss[s].readyState = "OPEN" THEN Send(ss, s, envelope) ELSE ss

\* The socket part of the cleanup, for one socket: the close envelope when OPEN,
\* then close(), both only when the socket is OPEN or CONNECTING.
CleanupSocket(ss, s, envelope) ==
    IF ss[s].readyState \in {"OPEN", "CONNECTING"}
    THEN Close(IF ss[s].readyState = "OPEN" THEN Send(ss, s, envelope) ELSE ss, s)
    ELSE ss

\* useAudio.stop on activeSourcesRef / audioContextRef / isPlaying.
StopAudio ==
    /\ activeSources' = 0
    /\ outCtx' = "null"
    /\ outCloses' = IF outCtx # "null" THEN outCloses + 1 ELSE outCloses
    /\ isPlaying' = FALSE

\* clearInterval(frameIntervalRef.current) when the ref is set.
ClearFrameInterval(ts, ref) == IF ref # 0 THEN [ts EXCEPT ![ref].active = FALSE] ELSE ts

\* The cleanup function returned by run k of the [user] effect.
Teardown(k) ==
    /\ k \in 1..Len(sessions)
    /\ sessions[k].aws # 0
    /\ isCleanedUpRef' = TRUE
    /\ intentionalCloseRef' = TRUE
    /\ timers' = ClearFrameInterval(timers, frameIntervalRef)
    /\ frameIntervalRef' = 0
    /\ socks' = CleanupSocket(CleanupSocket(socks, sessions[k].aws, "close"),
                              sessions[k].cws, "close")
    /\ audioWsRef' = 0
    /\ cognitionWsRef' = 0
    /\ mics' = StopMicrophone(mics, micRefs)
    /\ micRefs' = NullMicRefs
    /\ micActive' = FALSE
    /\ cams' = StopCameraCams(cams, camStreamRef)
    /\ camStreamRef' = 0
    /\ camActive' = StopCameraActive(camActive, camStreamRef)
    /\ videoSrc' = StopCameraVideo(videoSrc, camStreamRef, VideoMounted(mode, isCameraOn))
    /\ StopAudio
    /\ sessions' = [sessions EXCEPT ![k].cleaned = TRUE]
    /\ prev' = [op |-> "teardown", k |-> k,
                 again |-> prev.op = "teardown" /\ prev.k = k]
    /\ Tick
    /\ UNCHANGED hookVars
    /\ UNCHANGED << appVars, aiVars, cognitionStatus >>

\* --------------------------------------------------------- handleLogout
\* handleLogout sending the close envelopes without calling close().
HandleLogoutSendsOnly ==
    /\ mode = "assistant"
    /\ Tick
    /\ UNCHANGED hookVars
    /\ LET a == audioWsRef
           c == cognitionWsRef
           s1 == IF a # 0 THEN Send(socks, a, "close") ELSE socks
           s2 == IF c # 0 THEN Send(s1, c, "close") ELSE s1
       IN  IF a # 0 /\ SendThrows(socks, a)
           THEN /\ prev' = [op |-> "logout_threw", k |-> a, again |-> FALSE]
                /\ UNCHANGED << socks, mode >>
           ELSE IF c # 0 /\ SendThrows(s1, c)
           THEN /\ socks' = s1
                /\ prev' = [op |-> "logout_threw", k |-> c, again |-> FALSE]
                /\ UNCHANGED mode
           ELSE /\ socks' = s2
                /\ mode' = "login"
                /\ prev' = [op |-> "logout", k |-> 0, again |-> FALSE]
    /\ UNCHANGED << isMuted, isCameraOn, aiVars, cognitionStatus, sessions, audioWsRef,
                    cognitionWsRef, isCleanedUpRef, intentionalCloseRef, timerVars,
                    micVars, camVars, outVars >>

\* handleLogout: send the close envelope and close each referenced socket, then
\* setMode('login').  send throws while the socket is CONNECTING, which ends the
\* handler there.
HandleLogout ==
    /\ mode = "assistant"
    /\ Tick
    /\ UNCHANGED hookVars
    /\ LET a == audioWsRef
           c == cognitionWsRef
           s1 == IF a # 0 THEN Close(Send(socks, a, "close"), a) ELSE socks
           s2 == IF c # 0 THEN Close(Send(s1, c, "close"), c) ELSE s1
       IN  IF a # 0 /\ SendThrows(socks, a)
           THEN /\ prev' = [op |-> "logout_threw", k |-> a, again |-> FALSE]
                /\ UNCHANGED << socks, mode >>
           ELSE IF c # 0 /\ SendThrows(s1, c)
           THEN /\ socks' = s1
                /\ prev' = [op |-> "logout_threw", k |-> c, again |-> FALSE]
                /\ UNCHANGED mode
           ELSE /\ socks' = s2
                /\ mode' = "login"
                /\ prev' = [op |-> "logout", k |-> 0, again |-> FALSE]
    /\ UNCHANGED << isMuted, isCameraOn, aiVars, cognitionStatus, sessions, audioWsRef,
                    cognitionWsRef, isCleanedUpRef, intentionalCloseRef, timerVars,
                    micVars, camVars, outVars >>


\* ---------------------------------------------- socket message callbacks
\* What the server may send on each socket ("junk" is a payload that does not
\* parse or whose type / event is not one the handler knows).
AudioInbound == {"audio_reply", "junk"}
CognitionInbound == {"reasoning_complete", "memory_stored", "state_update_thinking",
                     "state_update_listening", "state_update_other",
                     "state_update_none", "junk"}

\* The state_update messages: with a state of the enum, with another string
\* ("other") and without a state field ("none").
StateUpdates == {"state_update_thinking", "state_update_listening",
                 "state_update_other", "state_update_none"}

\* The state field of a state_update message ("none": the field is missing).
StateOf(m) ==
    CASE m = "state_update_thinking" -> "thinking"
      [] m = "state_update_listening" -> "listening"
      [] m = "state_update_other" -> "other"
      [] OTHER -> "none"

\* useAudio.playAudio, as far as the orchestrator sees it: the output context is
\* created when there is none and one more source is scheduled.
PlayAudio ==
    /\ outCtx' = "running"
    /\ activeSources' = activeSources + 1
    /\ isPlaying' = TRUE
    /\ UNCHANGED outCloses

\* The inbound event of the given kind sets aiState: it is the latest event.
NextEvent(kind) == [n |-> lastEvent.n + 1, kind |-> kind]

\* audioWs.onmessage without the setTimeout.
AudioOnMessageNoTimeout(m) ==
    IF ~isCleanedUpRef /\ m = "audio_reply"
    THEN /\ PlayAudio
         /\ aiState' = "speaking"
         /\ lastEvent' = NextEvent("audio_reply")
         /\ UNCHANGED reverts
    ELSE UNCHANGED << outVars, aiVars >>

\* audioWs.onmessage with a catch block that goes back to listening.
AudioOnMessageCatchResets(m) ==
    IF isCleanedUpRef THEN UNCHANGED << outVars, aiVars >>
    ELSE IF m = "audio_reply"
    THEN /\ PlayAudio
         /\ aiState' = "speaking"
         /\ lastEvent' = NextEvent("audio_reply")
         /\ reverts' = reverts \cup {lastEvent'.n}
    ELSE /\ aiState' = "listening"
         /\ UNCHANGED << outVars, reverts, lastEvent >>

\* audioWs.onmessage
AudioOnMessage(m) ==
    IF ~isCleanedUpRef /\ m = "audio_reply"
    THEN /\ PlayAudio
         /\ aiState' = "speaking"
         /\ lastEvent' = NextEvent("audio_reply")
         /\ reverts' = reverts \cup {lastEvent'.n}
    ELSE UNCHANGED << outVars, aiVars >>

\* cognitionWs.onmessage treating memory_stored as it treats reasoning_complete.
CognitionOnMessageMemoryThinks(m) ==
    /\ UNCHANGED outVars
    /\ IF isCleanedUpRef THEN UNCHANGED aiVars
       ELSE IF m \in {"reasoning_complete", "memory_stored"}
       THEN /\ aiState' = "thinking"
            /\ lastEvent' = NextEvent("reasoning_complete")
            /\ reverts' = reverts \cup {lastEvent'.n}
       ELSE IF m \in StateUpdates /\ StateOf(m) # "none"
       THEN /\ aiState' = StateOf(m)
            /\ lastEvent' = NextEvent("state_update")
            /\ UNCHANGED reverts
       ELSE UNCHANGED aiVars

\* cognitionWs.onmessage
CognitionOnMessage(m) ==
    /\ UNCHANGED outVars
    /\ IF isCleanedUpRef THEN UNCHANGED aiVars
       ELSE IF m = "reasoning_complete"
       THEN /\ aiState' = "thinking"
            /\ lastEvent' = NextEvent("reasoning_complete")
            /\ reverts' = reverts \cup {lastEvent'.n}
       ELSE IF m \in StateUpdates /\ StateOf(m) # "none"
       THEN /\ aiState' = StateOf(m)
            /\ lastEvent' = NextEvent("state_update")
            /\ UNCHANGED reverts
       ELSE UNCHANGED aiVars

\* The platform delivers an inbound message on socket s, whose connection was
\* established: the socket is OPEN, or CLOSING with the message already under way.
SockMessage(s, m) ==
    /\ socks[s].opened = "yes"
    /\ socks[s].readyState \in {"OPEN", "CLOSING"}
    /\ IF socks[s].kind = "audio"
       THEN m \in AudioInbound /\ AudioOnMessage(m)
       ELSE m \in CognitionInbound /\ CognitionOnMessage(m)
    /\ prev' = [op |-> IF m = "junk" THEN "unrecognised"
                        ELSE IF m = "memory_stored" THEN "memory_stored" ELSE "message",
                 k |-> s, again |-> FALSE]
    /\ Tick
    /\ UNCHANGED hookVars
    /\ UNCHANGED << appVars, sockVars, timerVars, micVars, camVars >>

\* The connection of socket s ends (the closing handshake completes, or the
\* connection is lost): audioWs / cognitionWs .onclose.
SockClosed(s) ==
    /\ socks[s].readyState # "CLOSED"
    /\ socks' = [socks EXCEPT ![s].readyState = "CLOSED"]
    /\ cognitionStatus' = IF socks[s].kind = "cognition" THEN "disconnected"
                          ELSE cognitionStatus
    /\ prev' = Other
    /\ Tick
    /\ UNCHANGED hookVars
    /\ UNCHANGED << appVars, aiVars, sessions, audioWsRef, cognitionWsRef, isCleanedUpRef,
                    intentionalCloseRef, timerVars, micVars, camVars, outVars >>

\* The connection of socket s fails (it cannot be established, or it is lost):
\* the platform sets readyState to CLOSED and delivers the error event and then
\* the close event in one task.  audioWs.onerror and audioWs.onclose only log;
\* cognitionWs.onerror sets cognitionStatus to 'error' and cognitionWs.onclose
\* then sets it to 'disconnected'.
SockError(s) ==
    /\ socks[s].readyState # "CLOSED"
    /\ socks' = [socks EXCEPT ![s].readyState = "CLOSED"]
    /\ cognitionStatus' = IF socks[s].kind = "cognition" THEN "disconnected"
                          ELSE cognitionStatus
    /\ prev' = [op |-> "error", k |-> s, again |-> FALSE]
    /\ Tick
    /\ UNCHANGED hookVars
    /\ UNCHANGED << appVars, aiVars, sessions, audioWsRef, cognitionWsRef, isCleanedUpRef,
                    intentionalCloseRef, timerVars, micVars, camVars, outVars >>

\* The setTimeout(() => setAiState('listening'), ...) scheduled by event e fires.
RevertFire(e) ==
    /\ e \in reverts
    /\ reverts' = reverts \ {e}
    /\ aiState' = "listening"
    /\ UNCHANGED lastEvent
    /\ prev' = Other
    /\ Tick
    /\ UNCHANGED hookVars
    /\ UNCHANGED << appVars, sockVars, timerVars, micVars, camVars, outVars >>

\* ---------------------------------------------------------------- toggles
\* toggleMute, and the [isMuted] effect of the render that follows.
ToggleMute ==
    /\ mode = "assistant"
    /\ isMuted' = ~isMuted
    /\ MuteEffect(isMuted', socks, audioWsRef)
    /\ prev' = Other
    /\ Tick
    /\ UNCHANGED hookVars
    /\ UNCHANGED << mode, isCameraOn, aiVars, sockVars, timerVars, camVars, outVars >>

\* toggleCamera with an [isCameraOn] effect that also cancels the Frame Sampler.
ToggleCameraClearsInterval ==
    /\ mode = "assistant"
    /\ isCameraOn' = ~isCameraOn
    /\ CameraEffect(isCameraOn')
    /\ timers' = IF isCameraOn' THEN timers ELSE ClearFrameInterval(timers, frameIntervalRef)
    /\ frameIntervalRef' = IF isCameraOn' THEN frameIntervalRef ELSE 0
    /\ prev' = Other
    /\ Tick
    /\ UNCHANGED hookVars
    /\ UNCHANGED << mode, isMuted, aiVars, sockVars, micVars, outVars >>

\* toggleCamera, and the [isCameraOn] effect of the render that follows.
ToggleCamera ==
    /\ mode = "assistant"
    /\ isCameraOn' = ~isCameraOn
    /\ CameraEffect(isCameraOn')
    /\ prev' = Other
    /\ Tick
    /\ UNCHANGED hookVars
    /\ UNCHANGED << mode, isMuted, aiVars, sockVars, timerVars, micVars, outVars >>

\* ------------------------------------------- startMicrophone, resumed
\* getUserMedia settles: on success the stream is live and the AudioContext is
\* created, and the function awaits audioWorklet.addModule.
MicGumResolve(m, ok) ==
    /\ mics[m].stage = "gum"
    /\ mics' = IF ok
               THEN [mics EXCEPT ![m].stage = "module", ![m].tracks = "live",
                                 ![m].ctx = "running"]
               ELSE [mics EXCEPT ![m].stage = "failed"]
    /\ prev' = Other
    /\ Tick
    /\ UNCHANGED hookVars
    /\ UNCHANGED << appVars, aiVars, sockVars, timerVars, micRefs, micActive, camVars,
                    outVars >>

\* addModule settles: on success the graph is wired and the four refs are set.
MicModuleResolve(m, ok) ==
    /\ mics[m].stage = "module"
    /\ IF ok
       THEN /\ mics' = [mics EXCEPT ![m].stage = "done", ![m].wired = TRUE]
            /\ micRefs' = [source |-> m, worklet |-> m, ctx |-> m, stream |-> m]
            /\ micActive' = TRUE
       ELSE /\ mics' = [mics EXCEPT ![m].stage = "failed"]
            /\ UNCHANGED << micRefs, micActive >>
    /\ prev' = Other
    /\ Tick
    /\ UNCHANGED hookVars
    /\ UNCHANGED << appVars, aiVars, sockVars, timerVars, camVars, outVars >>

\* ----------------------------------------------- startCamera, resumed
\* getUserMedia settles: on success streamRef is set and, when the <video>
\* element is rendered, the stream is attached and the function awaits its
\* metadata; the catch block sets isActive to false.
CamGumResolve(c, ok) ==
    /\ cams[c].stage = "gum"
    /\ IF ok
       THEN /\ camStreamRef' = c
            /\ IF VideoMounted(mode, isCameraOn)
               THEN /\ cams' = [cams EXCEPT ![c].stage = "meta", ![c].tracks = "live"]
                    /\ videoSrc' = c
                    /\ UNCHANGED camActive
               ELSE /\ cams' = [cams EXCEPT ![c].stage = "done", ![c].tracks = "live"]
                    /\ camActive' = TRUE
                    /\ UNCHANGED videoSrc
       ELSE /\ cams' = [cams EXCEPT ![c].stage = "failed"]
            /\ camActive' = FALSE
            /\ UNCHANGED << camStreamRef, videoSrc >>
    /\ prev' = Other
    /\ Tick
    /\ UNCHANGED hookVars
    /\ UNCHANGED << appVars, aiVars, sockVars, timerVars, micVars, outVars >>

\* The <video> element showing stream c fires loadedmetadata (ok) or error.
CamMetaResolve(c, ok) ==
    /\ cams[c].stage = "meta"
    /\ videoSrc = c
    /\ cams' = [cams EXCEPT ![c].stage = IF ok THEN "loaded" ELSE "failed"]
    /\ camActive' = ok
    /\ prev' = Other
    /\ Tick
    /\ UNCHANGED hookVars
    /\ UNCHANGED << appVars, aiVars, sockVars, timerVars, micVars, camStreamRef, videoSrc,
                    outVars >>

\* ------------------------------------------------------- media producers
\* The socket the onData callback of microphone m sends on: the one its closure
\* captured (onopen) or the one audioWsRef refers to when it runs (toggle).
AudioSinkSocket(m) == IF mics[m].sink = "onopen" THEN mics[m].sock ELSE audioWsRef

\* The onData callbacks without their readyState test.
AudioSinkSendsUnchecked(m) ==
    IF mics[m].sink = "onopen"
    THEN /\ ~sessions[socks[mics[m].sock].sess].muted
         /\ ~isCleanedUpRef
    ELSE TRUE

\* The condition under which the onData callback of microphone m calls send.
AudioSinkSends(m) ==
    IF mics[m].sink = "onopen"
    THEN /\ socks[mics[m].sock].readyState = "OPEN"
         /\ ~sessions[socks[mics[m].sock].sess].muted
         /\ ~isCleanedUpRef
    ELSE ReadyState(socks, audioWsRef) = "OPEN"

\* The worklet of microphone m posts a frame: the onData callback runs.  A send
\* on a null reference or on a CONNECTING socket would throw.
MicData(m) ==
    /\ mics[m].wired
    /\ mics[m].tracks = "live"
    /\ mics[m].ctx = "running"
    /\ LET s == AudioSinkSocket(m)
       IN  IF ~AudioSinkSends(m)
           THEN /\ socks' = socks
                /\ prev' = [op |-> "micdata", k |-> m, again |-> FALSE]
           ELSE IF s = 0 \/ SendThrows(socks, s)
           THEN /\ socks' = socks
                /\ prev' = [op |-> "micdata_threw", k |-> m, again |-> FALSE]
           ELSE /\ socks' = Send(socks, s, "audio")
                /\ prev' = [op |-> "micdata", k |-> m, again |-> FALSE]
    /\ Tick
    /\ UNCHANGED hookVars
    /\ UNCHANGED << appVars, aiVars, cognitionStatus, sessions, audioWsRef, cognitionWsRef,
                    isCleanedUpRef, intentionalCloseRef, timerVars, micVars, camVars,
                    outVars >>

\* captureFrame without the test of the video dimensions.
FrameAvailableAnyDimensions ==
    /\ VideoMounted(mode, isCameraOn)
    /\ camStreamRef # 0
    /\ videoSrc # 0

\* useCamera.captureFrame returns a frame: the <video> element and the stream
\* exist and the element knows the video dimensions.
FrameAvailable ==
    /\ VideoMounted(mode, isCameraOn)
    /\ camStreamRef # 0
    /\ videoSrc # 0
    /\ cams[videoSrc].stage = "loaded"

\* The interval callback of Frame Sampler timer t runs.
FrameTick(t) ==
    /\ timers[t].active
    /\ socks' =
         IF /\ sessions[timers[t].sess].cam
            /\ ~isCleanedUpRef
            /\ FrameAvailable
            /\ socks[timers[t].sock].readyState = "OPEN"
         THEN Send(socks, timers[t].sock, "video")
         ELSE socks
    /\ prev' = [op |-> "frame", k |-> t, again |-> FALSE]
    /\ Tick
    /\ UNCHANGED hookVars
    /\ UNCHANGED << appVars, aiVars, cognitionStatus, sessions, audioWsRef, cognitionWsRef,
                    isCleanedUpRef, intentionalCloseRef, timerVars, micVars, camVars,
                    outVars >>

\* ------------------------------------------------------- specifications
\* The framework runs the [user] effect when the screen is mounted and after a
\* cleanup, and runs the cleanup of the latest run once: when the effect is
\* re-run (StrictMode's double invocation, a new user object, a hot reload) or
\* the screen is unmounted.
EffectStart ==
    /\ IF sessions = << >> THEN TRUE
       ELSE sessions[Len(sessions)].aws = 0 \/ sessions[Len(sessions)].cleaned
    /\ Start

EffectCleanup ==
    /\ sessions # << >>
    /\ ~sessions[Len(sessions)].cleaned
    /\ Teardown(Len(sessions))

\* The platform's socket events.
Network ==
    \/ \E s \in 1..Len(socks) : SockOpen(s)
    \/ \E s \in 1..Len(socks) : SockClosed(s)
    \/ \E s \in 1..Len(socks) : SockError(s)

\* The microphone: pending acquisitions settle, the worklet posts frames.
Microphone ==
    \/ \E m \in 1..Len(mics), ok \in BOOLEAN : MicGumResolve(m, ok)
    \/ \E m \in 1..Len(mics), ok \in BOOLEAN : MicModuleResolve(m, ok)
    \/ \E m \in 1..Len(mics) : MicData(m)

\* The camera: pending acquisitions settle.
Camera ==
    \/ \E c \in 1..Len(cams), ok \in BOOLEAN : CamGumResolve(c, ok)
    \/ \E c \in 1..Len(cams), ok \in BOOLEAN : CamMetaResolve(c, ok)

\* The server's messages and the auto-revert timeouts.
Inbound ==
    \/ \E s \in 1..Len(socks), m \in AudioInbound \cup CognitionInbound : SockMessage(s, m)
    \/ \E e \in reverts : RevertFire(e)

\* The user's controls, which exist while the screen is mounted with its effects run.
Mounted == LiveRun(sessions) # 0

User ==
    \/ Mounted /\ ToggleMute
    \/ Mounted /\ ToggleCamera
    \/ Mounted /\ HandleLogout

\* Everything the platform does.
Environment ==
    \/ Network
    \/ Inbound
    \/ Microphone
    \/ Camera
    \/ \E t \in 1..Len(timers) : FrameTick(t)

Next ==
    \/ EffectStart
    \/ EffectCleanup
    \/ User
    \/ Environment

Spec == Init /\ [][Next]_vars

\* The session that follows a logout and a new login.
SpecAfterLogout == InitAfterLogout /\ [][Next]_vars

\* The sessions and their messages, with the timeouts guaranteed to fire: a
\* pending setTimeout callback is run by the event loop sooner or later, whatever
\* else happens (it is never cleared, not even by the cleanup).  Every other
\* callback leaves, within the length explored, one step for each pending timeout.
TimeoutFires == \E e \in reverts : RevertFire(e)

LeavesRoomForTimeouts == steps' + Cardinality(reverts') <= MaxSteps

NextLive ==
    \/ EffectStart /\ LeavesRoomForTimeouts
    \/ EffectCleanup /\ LeavesRoomForTimeouts
    \/ Network /\ LeavesRoomForTimeouts
    \/ (\E s \in 1..Len(socks), m \in AudioInbound \cup CognitionInbound :
           SockMessage(s, m)) /\ LeavesRoomForTimeouts
    \/ Mounted /\ HandleLogout /\ LeavesRoomForTimeouts
    \/ TimeoutFires

SpecLive == Init /\ [][NextLive]_vars /\ WF_vars(TimeoutFires)

\* The orchestrator driven as a library: start() and any cleanup function it
\* returned may be called at any time, any number of times, while the sockets
\* open and close, the devices are acquired and audio replies arrive.
ApiStart == Len(sessions) < MaxCalls /\ Start

NextApi ==
    \/ ApiStart
    \/ \E k \in 1..Len(sessions) : Teardown(k)
    \/ ToggleCamera
    \/ \E s \in 1..Len(socks) : SockOpen(s)
    \/ \E s \in 1..Len(socks) : SockMessage(s, "audio_reply")
    \/ \E m \in 1..Len(mics) : MicGumResolve(m, TRUE)
    \/ \E m \in 1..Len(mics) : MicModuleResolve(m, TRUE)
    \/ \E c \in 1..Len(cams) : CamGumResolve(c, TRUE)

SpecApi == Init /\ [][NextApi]_vars


\* -------------------------------- one session, statement by statement
\* The elements of a sequence.
Range(seq) == {seq[i] : i \in 1..Len(seq)}

\* The cleanup function releasing the microphone before anything else.
CleanupOrderMicrophoneFirst ==
    << "microphone", "timer", "audioWs", "cognitionWs", "camera", "playback" >>

\* The statements of the cleanup function, in program order: clearInterval,
\* audioWs.close(), cognitionWs.close(), stopMicrophone(), stopCamera(),
\* stopAudio().
CleanupOrder ==
    << "timer", "audioWs", "cognitionWs", "microphone", "camera", "playback" >>

\* The [user] effect creates the Audio Session socket and then the Cognition
\* Session socket; the [isCameraOn] effect, declared after it, calls startCamera.
OrderStart ==
    /\ acquired = << >>
    /\ acquired' = << "audioWs", "cognitionWs" >>
                   \o (IF isCameraOn THEN << "camera" >> ELSE << >>)
    /\ pendingAcq' = IF isCameraOn THEN {"camera"} ELSE {}
    /\ UNCHANGED << released, cleanupPc, screenVars, playVars, encVars >>

\* audioWs.onopen: startMicrophone when not muted, then setInterval.
OrderAudioOpen ==
    /\ cleanupPc = 0
    /\ "audioWs" \in Range(acquired)
    /\ "timer" \notin Range(acquired)
    /\ acquired' = acquired \o (IF ~isMuted THEN << "microphone" >> ELSE << >>)
                            \o << "timer" >>
    /\ pendingAcq' = IF ~isMuted THEN pendingAcq \cup {"microphone"} ELSE pendingAcq
    /\ UNCHANGED << released, cleanupPc, screenVars, playVars, encVars >>

\* The pending acquisition of device r completes: the hook's refs hold the stream.
OrderAcquired(r) ==
    /\ cleanupPc = 0
    /\ r \in pendingAcq
    /\ pendingAcq' = pendingAcq \ {r}
    /\ UNCHANGED << acquired, released, cleanupPc, screenVars, playVars, encVars >>

\* The first audio_reply: playAudio creates the output context.
OrderAudioReply ==
    /\ cleanupPc = 0
    /\ "timer" \in Range(acquired)
    /\ "playback" \notin Range(acquired)
    /\ acquired' = Append(acquired, "playback")
    /\ UNCHANGED << pendingAcq, released, cleanupPc, screenVars, playVars, encVars >>

\* The next statement of the cleanup function: it releases its resource when the
\* session holds it (the timer when frameIntervalRef is set, a socket that is
\* OPEN or CONNECTING, a device whose refs are set, the output context).
CleanupStatement ==
    /\ acquired # << >>
    /\ cleanupPc < Len(CleanupOrder)
    /\ cleanupPc' = cleanupPc + 1
    /\ LET r == CleanupOrder[cleanupPc + 1]
       IN  released' = IF r \in Range(acquired) /\ r \notin pendingAcq
                       THEN Append(released, r)
                       ELSE released
    /\ UNCHANGED << acquired, pendingAcq, screenVars, playVars, encVars >>

NextOrder ==
    \/ OrderStart
    \/ OrderAudioOpen
    \/ \E r \in {"microphone", "camera"} : OrderAcquired(r)
    \/ OrderAudioReply
    \/ CleanupStatement

SpecOrder == Init /\ [][NextOrder]_vars


\* --------------------------------------------------- useAudio on its own
\* Number of playAudio calls, the last reading of a context's clock (times are
\* in units of 0.1 s) and the number of contexts stop() closes.
MaxChunks == 3
MaxClock == 3
MaxStops == 1

\* The durations and the sample rates a chunk may have.
Durations == {1, 2}
SampleRates == {16000, 24000}

\* onended: the 0.1 s by which the clock may be short of the cursor.
EndSlack == 1

\* new AudioContext() without the sampleRate option: the platform's default rate.
NewContextDefaultRate(rate, state) ==
    [state |-> state, sampleRate |-> 24000, currentTime |-> 0]

\* new AudioContext({ sampleRate }): the platform starts it running, or suspended
\* under the autoplay policy; its clock starts at 0.
NewContext(rate, state) == [state |-> state, sampleRate |-> rate, currentTime |-> 0]

\* getAudioContext creates a context when there is none or it is closed.
NeedsContext == playCtxRef = 0 \/ playCtxs[playCtxRef].state = "closed"

\* playAudio starting every chunk at the clock, whatever the cursor.
ScheduleChunkAtClock(st, p, ctxs) ==
    LET now == ctxs[p.ctx].currentTime
    IN  [cursor |-> now + p.dur,
         log |-> Append(st.log, [chunk |-> p.chunk, ctx |-> p.ctx,
                                 start |-> now, end |-> now + p.dur]),
         active |-> st.active \cup {Len(st.log) + 1}]

\* playAudio starting every chunk at the cursor, also when it has fallen behind.
ScheduleChunkAtCursor(st, p, ctxs) ==
    [cursor |-> st.cursor + p.dur,
     log |-> Append(st.log, [chunk |-> p.chunk, ctx |-> p.ctx,
                             start |-> st.cursor, end |-> st.cursor + p.dur]),
     active |-> st.active \cup {Len(st.log) + 1}]

\* playAudio advancing the cursor from the clock instead of from the start time.
ScheduleChunkCursorFromClock(st, p, ctxs) ==
    LET now == ctxs[p.ctx].currentTime
        start == IF st.cursor < now THEN now ELSE st.cursor
    IN  [cursor |-> now + p.dur,
         log |-> Append(st.log, [chunk |-> p.chunk, ctx |-> p.ctx,
                                 start |-> start, end |-> start + p.dur]),
         active |-> st.active \cup {Len(st.log) + 1}]

\* playAudio after its await, for the call p = [chunk, ctx, dur], on the state
\* st = [cursor, log, active]: the cursor is moved up to the context's clock when
\* it has fallen behind, the source is started at the cursor and tracked, and the
\* cursor is advanced by the chunk's duration.
ScheduleChunk(st, p, ctxs) ==
    LET now == ctxs[p.ctx].currentTime
        start == IF st.cursor < now THEN now ELSE st.cursor
    IN  [cursor |-> start + p.dur,
         log |-> Append(st.log, [chunk |-> p.chunk, ctx |-> p.ctx,
                                 start |-> start, end |-> start + p.dur]),
         active |-> st.active \cup {Len(st.log) + 1}]

\* The continuations of the calls ps, run in order.
RECURSIVE ScheduleAll(_, _, _)
ScheduleAll(st, ps, ctxs) ==
    IF ps = << >> THEN st
    ELSE ScheduleAll(ScheduleChunk(st, Head(ps), ctxs), Tail(ps), ctxs)

\* The scheduler state the continuations work on.
PlayState(cursor) == [cursor |-> cursor, log |-> chunkLog, active |-> activeSourcesRef]

\* The subsequence of the pending calls made on context x (keep), or on another.
RECURSIVE PendingOn(_, _, _)
PendingOn(ps, x, keep) ==
    IF ps = << >> THEN << >>
    ELSE IF (Head(ps).ctx = x) = keep
         THEN << Head(ps) >> \o PendingOn(Tail(ps), x, keep)
         ELSE PendingOn(Tail(ps), x, keep)

\* playAudio(chunk of duration d, sampleRate r) up to its await: the context is
\* created when needed (suspended tells how the platform starts it); the call
\* then waits for resume() when the context is suspended and schedules the chunk
\* at once otherwise.
PlayAudioCall(d, r, suspended) ==
    /\ nchunks < MaxChunks
    /\ LET create == NeedsContext
           ctxs == IF create
                   THEN Append(playCtxs,
                               NewContext(r, IF suspended THEN "suspended" ELSE "running"))
                   ELSE playCtxs
           x == IF create THEN Len(playCtxs) + 1 ELSE playCtxRef
           cursor == IF create THEN 0 ELSE nextStartTimeRef
           p == [chunk |-> nchunks + 1, ctx |-> x, dur |-> d]
           st == ScheduleChunk(PlayState(cursor), p, ctxs)
       IN  /\ playCtxs' = ctxs
           /\ playCtxRef' = x
           /\ IF ctxs[x].state = "suspended"
              THEN /\ pendingPlays' = Append(pendingPlays, p)
                   /\ nextStartTimeRef' = cursor
                   /\ UNCHANGED << chunkLog, activeSourcesRef, playing >>
              ELSE /\ nextStartTimeRef' = st.cursor
                   /\ chunkLog' = st.log
                   /\ activeSourcesRef' = st.active
                   /\ playing' = TRUE
                   /\ UNCHANGED pendingPlays
    /\ nchunks' = nchunks + 1
    /\ UNCHANGED << screenVars, encVars, orderVars >>

\* The platform resumes the suspended context x: its pending resume() promises
\* are resolved in order in one task, and the awaiting playAudio calls continue.
ResumeResolve(x) ==
    /\ playCtxs[x].state = "suspended"
    /\ PendingOn(pendingPlays, x, TRUE) # << >>
    /\ playCtxs' = [playCtxs EXCEPT ![x].state = "running"]
    /\ LET st == ScheduleAll(PlayState(nextStartTimeRef),
                             PendingOn(pendingPlays, x, TRUE), playCtxs')
       IN  /\ nextStartTimeRef' = st.cursor
           /\ chunkLog' = st.log
           /\ activeSourcesRef' = st.active
    /\ playing' = TRUE
    /\ pendingPlays' = PendingOn(pendingPlays, x, FALSE)
    /\ UNCHANGED << playCtxRef, nchunks, screenVars, encVars, orderVars >>

\* The resume() promises of a context closed meanwhile settle: rejected (the
\* calls end in their catch block) or resolved (the calls continue on the closed
\* context, whose clock stands still).
ResumeOnClosed(x, ok) ==
    /\ playCtxs[x].state = "closed"
    /\ PendingOn(pendingPlays, x, TRUE) # << >>
    /\ IF ok
       THEN LET st == ScheduleAll(PlayState(nextStartTimeRef),
                                  PendingOn(pendingPlays, x, TRUE), playCtxs)
            IN  /\ nextStartTimeRef' = st.cursor
                /\ chunkLog' = st.log
                /\ activeSourcesRef' = st.active
                /\ playing' = TRUE
       ELSE UNCHANGED << nextStartTimeRef, chunkLog, activeSourcesRef, playing >>
    /\ pendingPlays' = PendingOn(pendingPlays, x, FALSE)
    /\ UNCHANGED << playCtxs, playCtxRef, nchunks, screenVars, encVars, orderVars >>

\* Number of output contexts closed so far.
ClosedContexts == Cardinality({x \in 1..Len(playCtxs) : playCtxs[x].state = "closed"})

\* useAudio.stop
StopPlayback ==
    /\ (playCtxRef # 0 /\ playCtxs[playCtxRef].state # "closed") => ClosedContexts < MaxStops
    /\ activeSourcesRef' = {}
    /\ IF playCtxRef # 0 /\ playCtxs[playCtxRef].state # "closed"
       THEN /\ playCtxs' = [playCtxs EXCEPT ![playCtxRef].state = "closed"]
            /\ playCtxRef' = 0
       ELSE UNCHANGED << playCtxs, playCtxRef >>
    /\ nextStartTimeRef' = 0
    /\ playing' = FALSE
    /\ UNCHANGED << chunkLog, pendingPlays, nchunks, screenVars, encVars, orderVars >>

\* The clock of the running context advances.
ClockAdvance ==
    /\ playCtxRef # 0
    /\ playCtxs[playCtxRef].state = "running"
    /\ playCtxs[playCtxRef].currentTime < MaxClock
    /\ playCtxs' = [playCtxs EXCEPT ![playCtxRef].currentTime = @ + 1]
    /\ UNCHANGED << playCtxRef, nextStartTimeRef, chunkLog, activeSourcesRef,
                    pendingPlays, playing, nchunks, screenVars, encVars, orderVars >>

\* source.onended of chunk i, which has played to its end.
SourceEnded(i) ==
    /\ i \in activeSourcesRef
    /\ playCtxs[chunkLog[i].ctx].state = "running"
    /\ playCtxs[chunkLog[i].ctx].currentTime >= chunkLog[i].end
    /\ activeSourcesRef' = activeSourcesRef \ {i}
    /\ playing' = IF playCtxs[chunkLog[i].ctx].currentTime >= nextStartTimeRef - EndSlack
                  THEN FALSE ELSE playing
    /\ UNCHANGED << playCtxs, playCtxRef, nextStartTimeRef, chunkLog, pendingPlays,
                    nchunks, screenVars, encVars, orderVars >>

NextAudio ==
    \/ \E d \in Durations, r \in SampleRates, suspended \in BOOLEAN :
          PlayAudioCall(d, r, suspended)
    \/ \E x \in 1..Len(playCtxs) : ResumeResolve(x)
    \/ \E x \in 1..Len(playCtxs), ok \in BOOLEAN : ResumeOnClosed(x, ok)
    \/ StopPlayback
    \/ ClockAdvance
    \/ \E i \in 1..Len(chunkLog) : SourceEnded(i)

\* The hook is exercised with the screen in one of its initial states.
InitAudio == Init /\ ~isMuted /\ ~isCameraOn

SpecAudio == InitAudio /\ [][NextAudio]_vars


\* ---------------------------------------------- AudioProcessor on its own
\* Number of samples of the frames explored.
MaxFrame == 2

\* A sample k stands for the Float32 value nearest to k / Den.  Products with
\* 32767 and 32768 that are not integers are at least 0.1 away from one, far more
\* than the rounding of the Float32 value moves them, so the exact quotient
\* truncates as the double does.
Den == 10

\* The samples a frame may hold: -1.2 to 1.2 in steps of 0.1.
Samples == (0 - 12)..12

\* The frame of the encoder scenario: 1.0, -1.0, 0.0, 0.5.
ScenarioFrame == << Den, 0 - Den, 0, Den \div 2 >>

Frames ==
    {ScenarioFrame} \cup UNION {[1..n -> Samples] : n \in 1..MaxFrame}

\* Math.max(-1, Math.min(1, x))
Clamp(x) == IF x > Den THEN Den ELSE IF x < 0 - Den THEN 0 - Den ELSE x

\* The scaling with one factor for both signs.
ScaleSymmetric(s) == s * 32767

\* s < 0 ? s * 0x8000 : s * 0x7FFF, as a number of tenths.
Scale(s) == IF s < 0 THEN s * 32768 ELSE s * 32767

\* The store into an Int16Array element: the number n / Den is truncated towards
\* zero and reduced modulo 2^16 into the signed range.
ToInt16(n) ==
    LET t == IF n >= 0 THEN n \div Den ELSE 0 - ((0 - n) \div Den)
    IN  ((t + 32768) % 65536) - 32768

\* One iteration of the conversion loop.
Encode(x) == ToInt16(Scale(Clamp(x)))

\* process(inputs): the first channel is converted and posted.
Process ==
    /\ inputData # << >>
    /\ int16Data' = [i \in 1..Len(inputData) |-> Encode(inputData[i])]
    /\ UNCHANGED << inputData, screenVars, playVars, orderVars >>

NextEncoder == Process

\* The worklet is about to be given a frame; nothing has been posted yet.
InitFrame ==
    /\ aiState = "listening"
    /\ Mount
    /\ ~isMuted /\ ~isCameraOn
    /\ inputData \in Frames
    /\ int16Data = << >>

SpecEncoder == InitFrame /\ [][NextEncoder]_vars


\* =================================================================== claims
Live(rs) == rs \in {"OPEN", "CONNECTING"}

\* This step is a call of start() / of a cleanup function / handles a message.
StartStep == prev'.op = "start" /\ steps' # steps
TeardownStep == prev'.op = "teardown" /\ steps' # steps
MessageStep == prev'.op \in {"message", "unrecognised", "memory_stored"} /\ steps' # steps
MicDataStep == prev'.op = "micdata" /\ steps' # steps

\* C1: a start() that directly follows a start(), while the sockets the first
\* call created are open or connecting, creates no socket.
C1_SecondStartIsNoOp ==
    [][ ( /\ StartStep
          /\ prev.op = "start"
          /\ audioWsRef # 0 /\ Live(ReadyState(socks, audioWsRef))
          /\ cognitionWsRef # 0 /\ Live(ReadyState(socks, cognitionWsRef)) )
        => socks' = socks ]_vars

\* This step delivers the open event of socket s, which its session's cleanup
\* closed while it was connecting.
LateOpenStep(s) ==
    /\ s <= Len(socks)
    /\ socks[s].opened = "no"
    /\ socks[s].readyState = "CLOSING"
    /\ sessions[socks[s].sess].cleaned
    /\ socks'[s].opened = "late"

\* C2: the open callback of a socket that was connecting when its session was
\* torn down sends nothing, starts neither the microphone nor the Frame Sampler
\* timer, and calls close() on the socket.
C2_LateOpenIsInert ==
    [][ \A s \in 1..Len(socks') :
          LateOpenStep(s) =>
            /\ socks'[s].sent = socks[s].sent
            /\ mics' = mics
            /\ timers' = timers
            /\ frameIntervalRef' = frameIntervalRef
            /\ socks'[s].closeCalls = socks[s].closeCalls + 1 ]_vars

\* The latest run of the [user] effect has been cleaned up and not restarted.
TornDown == sessions # << >> /\ sessions[Len(sessions)].cleaned

MicPending(m) == mics[m].stage \in {"gum", "module"}
CamPending(c) == cams[c].stage \in {"gum", "meta"}

\* C3: after teardown, once the acquisitions that were pending at the teardown
\* have settled, no microphone stream and no camera stream is live.
C3_NoHandleAfterTeardown ==
    ( /\ TornDown
      /\ \A m \in 1..Len(mics) : ~MicPending(m)
      /\ \A c \in 1..Len(cams) : ~CamPending(c) )
    => /\ \A m \in 1..Len(mics) : mics[m].tracks # "live"
       /\ \A c \in 1..Len(cams) : cams[c].tracks # "live"

\* C4: a message callback of a socket whose session has been torn down enqueues
\* no audio, changes no Activity State and schedules no auto-revert timer.
C4_MessageAfterTeardownIsNoOp ==
    [][ ( /\ MessageStep
          /\ sessions[socks[prev'.k].sess].cleaned )
        => UNCHANGED << outVars, aiVars >> ]_vars

\* Number of occurrences of x in seq.
Count(seq, x) == Cardinality({i \in 1..Len(seq) : seq[i] = x})

\* start, teardown, start were run back to back with the first sockets still
\* connecting at the teardown, every open callback has fired since, and the
\* sockets of the second start are open.
DoubleInvocationDone ==
    /\ Len(sessions) = 2
    /\ Len(socks) = 4
    /\ sessions[1].cleaned
    /\ ~sessions[2].cleaned
    /\ \A s \in 1..2 : socks[s].opened = "late" /\ socks[s].openedIn = 2
    /\ \A s \in 3..4 : socks[s].opened = "yes" /\ socks[s].readyState = "OPEN"

\* C5: after the double invocation start, teardown, start, once all open
\* callbacks have fired, only the sockets of the second start are open, the
\* identity has been sent once on each of them, at most one Frame Sampler timer
\* is active and at most one microphone stream is live.
C5_DoubleInvocationLeavesOneSession ==
    DoubleInvocationDone =>
        /\ \A s \in 1..2 : socks[s].readyState # "OPEN"
        /\ \A s \in 3..4 : Count(socks[s].sent, "identity") = 1
        /\ Cardinality({t \in 1..Len(timers) : timers[t].active}) <= 1
        /\ Cardinality({m \in 1..Len(mics) : mics[m].tracks = "live"}) <= 1

\* C6: a cleanup function called a second time in a row releases nothing: no
\* socket is sent to or closed, no microphone or camera stream is stopped, no
\* audio context is closed, no timer is cleared.
C6_SecondTeardownReleasesNothing ==
    [][ ( /\ TeardownStep
          /\ prev'.again )
        => /\ socks' = socks
           /\ mics' = mics
           /\ cams' = cams
           /\ timers' = timers
           /\ outCloses' = outCloses ]_vars

\* A cleanup function has just been called twice in a row, and the first call
\* closed an open socket, released the microphone and closed the output context.
C6_Witness ==
    /\ prev.op = "teardown"
    /\ prev.again
    /\ \E s \in 1..Len(socks) : socks[s].closeCalls = 1 /\ Count(socks[s].sent, "close") = 1
    /\ \E m \in 1..Len(mics) : mics[m].nstop = 1 /\ mics[m].nclose = 1
    /\ outCloses = 1

\* This step is a call of handleLogout.
LogoutStep == prev'.op \in {"logout", "logout_threw"} /\ steps' # steps

\* C7: handleLogout does not throw: it leaves neither referenced socket open or
\* connecting and switches the mode to login.
C7_LogoutNeverThrows ==
    [][ LogoutStep
        => /\ prev'.op = "logout"
           /\ mode' = "login"
           /\ ~Live(ReadyState(socks', audioWsRef))
           /\ ~Live(ReadyState(socks', cognitionWsRef)) ]_vars

\* C8: the cleanup of run k sends the close envelope on each of the run's sockets
\* that is OPEN and closes it, closes each that is CONNECTING without sending,
\* and leaves neither OPEN or CONNECTING.
C8_TeardownClosesSockets ==
    [][ TeardownStep
        => \A s \in {sessions[prev'.k].aws, sessions[prev'.k].cws} :
             /\ socks[s].readyState = "OPEN"
                  => /\ socks'[s].sent = Append(socks[s].sent, "close")
                     /\ socks'[s].readyState = "CLOSING"
                     /\ socks'[s].closeCalls = socks[s].closeCalls + 1
             /\ socks[s].readyState = "CONNECTING"
                  => /\ socks'[s].sent = << >>
                     /\ socks'[s].readyState = "CLOSING"
                     /\ socks'[s].closeCalls = socks[s].closeCalls + 1
             /\ ~Live(socks'[s].readyState) ]_vars

\* A cleanup has just run that found the Audio Session socket open (identity,
\* then the close envelope) and the Cognition Session socket still connecting.
C8_Witness ==
    /\ prev.op = "teardown"
    /\ socks[sessions[prev.k].aws].sent = << "identity", "close" >>
    /\ socks[sessions[prev.k].aws].readyState = "CLOSING"
    /\ socks[sessions[prev.k].cws].opened = "no"
    /\ socks[sessions[prev.k].cws].sent = << >>
    /\ socks[sessions[prev.k].cws].readyState = "CLOSING"

\* C9: on every socket the first message sent is the Session Identity, and it is
\* sent at most once.
C9_IdentityFirstAndOnce ==
    \A s \in 1..Len(socks) :
        /\ socks[s].sent # << >> => Head(socks[s].sent) = "identity"
        /\ Count(socks[s].sent, "identity") <= 1

\* A socket on which the identity, then audio, then the close envelope was sent.
C9_Witness ==
    \E s \in 1..Len(socks) :
        /\ Len(socks[s].sent) >= 3
        /\ socks[s].sent[1] = "identity"
        /\ socks[s].sent[2] = "audio"
        /\ socks[s].sent[Len(socks[s].sent)] = "close"

C11_ChunksInOrderNoOverlap ==
    \A i, j \in 1..Len(chunkLog) :
        (i < j /\ chunkLog[i].ctx = chunkLog[j].ctx)
        => /\ chunkLog[i].chunk < chunkLog[j].chunk
           /\ chunkLog[j].start >= chunkLog[i].end

\* A third chunk was scheduled while the two before it were still scheduled, and
\* starts where the second ends.
C11_Witness ==
    /\ Len(chunkLog) = 3
    /\ activeSourcesRef = {1, 2, 3}
    /\ chunkLog[1].ctx = chunkLog[3].ctx
    /\ chunkLog[2].ctx = chunkLog[3].ctx
    /\ chunkLog[2].start = chunkLog[1].end
    /\ chunkLog[3].start = chunkLog[2].end

Max(a, b) == IF a >= b THEN a ELSE b

\* The cursor that chunkLog'[j], scheduled by this step, found: the end of the
\* chunk scheduled just before it by the same step, else the cursor before the
\* step (0 when the step created the context).
CursorFound(j) ==
    IF j > Len(chunkLog) + 1 THEN chunkLog'[j - 1].end
    ELSE IF Len(playCtxs') > Len(playCtxs) THEN 0
    ELSE nextStartTimeRef

\* C12: every chunk is started at the larger of the cursor and the clock of its
\* context, and the cursor is then the end of the chunk scheduled last.
C12_StartIsMaxOfCursorAndClock ==
    [][ Len(chunkLog') > Len(chunkLog)
        => /\ \A j \in (Len(chunkLog) + 1)..Len(chunkLog') :
                chunkLog'[j].start
                    = Max(CursorFound(j), playCtxs'[chunkLog'[j].ctx].currentTime)
           /\ nextStartTimeRef' = chunkLog'[Len(chunkLog')].end ]_vars

\* A chunk found the cursor behind the clock and was started at the clock: it
\* starts after the end of the chunk before it, on the same context.
C12_Witness ==
    /\ Len(chunkLog) >= 2
    /\ chunkLog[2].ctx = chunkLog[1].ctx
    /\ chunkLog[2].start > chunkLog[1].end
    /\ playCtxs[chunkLog[2].ctx].currentTime >= chunkLog[2].start
    /\ nextStartTimeRef = chunkLog[Len(chunkLog)].end

\* C13 as stated: no step lowers the playback cursor.
C13_CursorNeverDecreases ==
    [][ nextStartTimeRef' >= nextStartTimeRef ]_vars

\* C13 as amended: the cursor is lowered only by stop(), which schedules nothing
\* and leaves it 0, or by a playAudio call that creates the output context.
C13_CursorLoweredOnlyByReset ==
    [][ nextStartTimeRef' < nextStartTimeRef
        => \/ chunkLog' = chunkLog /\ nextStartTimeRef' = 0
           \/ Len(playCtxs') > Len(playCtxs) ]_vars

\* stop() has closed the context on which a chunk was scheduled: the cursor went
\* from the end of that chunk back to 0.
C13_Witness ==
    /\ chunkLog # << >>
    /\ playCtxRef = 0
    /\ ClosedContexts = 1
    /\ pendingPlays = << >>
    /\ nextStartTimeRef = 0

\* A revert timer fires: one pending timeout callback has run.
RevertStep(e) == e \in reverts /\ reverts' = reverts \ {e}

\* C14: once a state_update is the latest event, aiState stays what it set until
\* another inbound event or a socket error: no timer changes it.
C14_StateUpdateDoesNotRevert ==
    [][ (/\ lastEvent.kind = "state_update"
         /\ lastEvent' = lastEvent
         /\ prev'.op # "error")
        => aiState' = aiState ]_vars

\* C15: a revert timer scheduled by an event that is no longer the latest one
\* does not change aiState when it fires.
C15_SupersededRevertIsInert ==
    [][ \A e \in reverts :
          (RevertStep(e) /\ e < lastEvent.n) => aiState' = aiState ]_vars

\* A socket's error event has just been handled.
ErrorStep == prev'.op = "error" /\ steps' # steps

\* C16: after the error event of either socket, aiState is listening.
C16_ErrorResetsToListening ==
    [][ ErrorStep => aiState' = "listening" ]_vars

\* C17: aiState is listening when a session starts.
C17_ListeningAtSessionStart ==
    [][ StartStep => aiState' = "listening" ]_vars

\* The audio and video envelopes sent so far on socket s.
MediaSent(ss, s) == Count(ss[s].sent, "audio") + Count(ss[s].sent, "video")

\* This step is the production of a microphone frame or of a video frame.
ProducerStep ==
    prev'.op \in {"micdata", "micdata_threw", "frame"} /\ steps' # steps

\* C18: an audio or video envelope is sent only by the step that produces the
\* frame, one per frame, on the Audio Session socket, which is OPEN at that
\* time; and the production of a frame never throws.
C18_MediaSentOnlyWhileOpen ==
    [][ /\ \A s \in 1..Len(socks) :
              (socks'[s].sent # socks[s].sent /\ MediaSent(socks', s) # MediaSent(socks, s))
              => /\ ProducerStep
                 /\ socks[s].kind = "audio"
                 /\ socks[s].readyState = "OPEN"
                 /\ MediaSent(socks', s) = MediaSent(socks, s) + 1
        /\ prev'.op # "micdata_threw" ]_vars

\* A microphone frame was produced while the socket of its sink was not open,
\* and nothing was sent.
C18_Witness ==
    /\ prev.op = "micdata"
    /\ AudioSinkSocket(prev.k) # 0
    /\ socks[AudioSinkSocket(prev.k)].readyState \in {"CLOSING", "CLOSED"}
    /\ MediaSent(socks, AudioSinkSocket(prev.k)) = 0

\* The microphone streams and the camera streams whose tracks are live.
LiveMics == {m \in 1..Len(mics) : mics[m].tracks = "live"}
LiveCams == {c \in 1..Len(cams) : cams[c].tracks = "live"}

\* C19: at most one microphone stream and at most one camera stream are live.
C19_OneLiveStreamPerDevice ==
    Cardinality(LiveMics) <= 1 /\ Cardinality(LiveCams) <= 1

\* t is the integer part of n / Den (the quotient truncated towards zero).
IsTrunc(t, n) ==
    IF n >= 0 THEN t * Den <= n /\ n < (t + 1) * Den
    ELSE t * Den >= n /\ n > (t - 1) * Den

\* The sample x clamped to [-1, 1].
Clamped(x) == IF x < 0 - Den THEN 0 - Den ELSE IF x > Den THEN Den ELSE x

\* C20: once a frame is posted, every posted value is trunc(c * 32768) for
\* c < 0 and trunc(c * 32767) otherwise, c the clamped sample, and lies in
\* -32768..32767; the scenario frame 1.0, -1.0, 0.0, 0.5 gives 32767, -32768,
\* 0, 16383.
C20_EncoderLaw ==
    int16Data # << >>
    => /\ Len(int16Data) = Len(inputData)
       /\ \A i \in 1..Len(inputData) :
             LET c == Clamped(inputData[i])
             IN  /\ c < 0 => IsTrunc(int16Data[i], c * 32768)
                 /\ c >= 0 => IsTrunc(int16Data[i], c * 32767)
                 /\ int16Data[i] >= 0 - 32768
                 /\ int16Data[i] <= 32767
       /\ inputData = ScenarioFrame => int16Data = << 32767, 0 - 32768, 0, 16383 >>

\* The scenario frame has been encoded.
C20_Witness ==
    /\ inputData = ScenarioFrame
    /\ int16Data = << 32767, 0 - 32768, 0, 16383 >>

\* This step delivers the open event of the Audio Session socket s, which becomes
\* OPEN, to a session that has not been cleaned up.
AudioOpenStep(s) ==
    /\ socks[s].kind = "audio"
    /\ socks[s].opened = "no"
    /\ socks'[s].opened = "yes"
    /\ ~isCleanedUpRef

\* C21: the open callback of the Audio Session starts the microphone exactly
\* when the mute setting is off at that moment.
C21_OpenHonoursCurrentMute ==
    [][ \A s \in 1..Len(socks) :
          AudioOpenStep(s) => (Len(mics') = Len(mics) + 1 <=> ~isMuted) ]_vars

\* The audio envelopes sent so far on all sockets.
RECURSIVE AudioSent(_, _)
AudioSent(ss, n) == IF n = 0 THEN 0 ELSE Count(ss[n].sent, "audio") + AudioSent(ss, n - 1)

\* C22: while the mute setting is on, no microphone stream is live and no step
\* sends an audio envelope.
C22_MutedMeansSilent ==
    [][ (isMuted /\ isMuted')
        => /\ \A m \in 1..Len(mics') : mics'[m].tracks # "live"
           /\ AudioSent(socks', Len(socks)) = AudioSent(socks, Len(socks)) ]_vars

\* This step is a tick of Frame Sampler timer t.
FrameStep(t) == prev'.op = "frame" /\ prev'.k = t /\ steps' # steps

\* The video envelopes sent so far on socket s.
VideoSent(ss, s) == Count(ss[s].sent, "video")

\* C23: a tick whose Audio Session socket is OPEN sends one video envelope when
\* the camera setting is on at that moment and a frame is available, and none
\* when the setting is off.
C23_TickHonoursCurrentCamera ==
    [][ prev'.op = "frame"
        => \A t \in 1..Len(timers) :
             (FrameStep(t) /\ socks[timers[t].sock].readyState = "OPEN")
             => LET s == timers[t].sock
                IN  /\ (isCameraOn /\ FrameAvailable)
                       => VideoSent(socks', s) = VideoSent(socks, s) + 1
                    /\ ~isCameraOn
                       => VideoSent(socks', s) = VideoSent(socks, s) ]_vars

\* C24: a camera toggle leaves both sockets, the Frame Sampler timer, the
\* microphone and aiState as they were.
C24_CameraToggleFrame ==
    [][ isCameraOn' # isCameraOn
        => UNCHANGED << socks, audioWsRef, cognitionWsRef, cognitionStatus, timers,
                        frameIntervalRef, mics, micRefs, micActive, aiState,
                        reverts >> ]_vars

\* The camera was toggled off, which stopped its stream, and the Frame Sampler
\* of the running session has ticked since.
C24_Witness ==
    /\ ~isCameraOn
    /\ LiveRun(sessions) # 0
    /\ \E c \in 1..Len(cams) : cams[c].nstop = 1
    /\ prev.op = "frame"
    /\ timers[prev.k].active
    /\ frameIntervalRef = prev.k

\* The video element is missing, no camera stream is held, or the element has no
\* video dimensions yet (its metadata has not loaded).
NothingToCapture ==
    \/ mode # "assistant" \/ ~isCameraOn
    \/ camStreamRef = 0
    \/ videoSrc = 0
    \/ cams[videoSrc].stage # "loaded"

\* C25: a tick that finds nothing to capture sends nothing and leaves the timers
\* as they are.
C25_EmptyTickIsNoOp ==
    [][ prev'.op = "frame"
        => \A t \in 1..Len(timers) :
             (FrameStep(t) /\ NothingToCapture)
             => /\ socks' = socks
                /\ timers' = timers
                /\ frameIntervalRef' = frameIntervalRef ]_vars

\* A tick of the running session's timer, whose closure has the camera on and
\* whose socket is OPEN, found a stream whose metadata had not loaded; the timer
\* is still registered.
C25_Witness ==
    /\ prev.op = "frame"
    /\ sessions[timers[prev.k].sess].cam
    /\ ~isCleanedUpRef
    /\ socks[timers[prev.k].sock].readyState = "OPEN"
    /\ isCameraOn
    /\ camStreamRef # 0
    /\ videoSrc = camStreamRef
    /\ cams[videoSrc].stage = "meta"
    /\ timers[prev.k].active

\* The Frame Sampler timers that are registered (set and not cleared).
ActiveTimers == {t \in 1..Len(timers) : timers[t].active}

\* C26: at most one Frame Sampler timer is registered, and none once the latest
\* run of the effect has been cleaned up.
C26_OneTimerNoneAfterTeardown ==
    /\ Cardinality(ActiveTimers) <= 1
    /\ TornDown => ActiveTimers = {}

\* The subsequence of seq of the elements that are in set.
RECURSIVE Restrict(_, _)
Restrict(seq, set) ==
    IF seq = << >> THEN << >>
    ELSE (IF Head(seq) \in set THEN << Head(seq) >> ELSE << >>)
         \o Restrict(Tail(seq), set)

Reverse(seq) == [i \in 1..Len(seq) |-> seq[Len(seq) + 1 - i]]

\* The cleanup function has run to its end.
CleanupDone == cleanupPc = Len(CleanupOrder)

ReleaseRank(r) ==
    CASE r = "timer" -> 1
      [] r = "audioWs" -> 2
      [] r = "cognitionWs" -> 3
      [] r = "microphone" -> 4
      [] r = "camera" -> 5
      [] r = "playback" -> 6

C28_ActivityStateInEnum == aiState \in {"listening", "thinking", "speaking"}

\* This step handles a message that does not parse or is of no known kind.
UnrecognisedStep == prev'.op = "unrecognised" /\ steps' # steps

\* C29: a message that does not parse or is of no known kind changes neither
\* aiState nor the pending reverts, the playback state or the sockets; and the
\* audio_reply that follows it on the same socket is handled.
C29_UnrecognisedIsDiscarded ==
    [][ /\ UnrecognisedStep
           => UNCHANGED << aiState, reverts, outCtx, activeSources, outCloses,
                           isPlaying, socks, audioWsRef, cognitionWsRef,
                           cognitionStatus >>
        /\ (/\ prev.op = "unrecognised"
            /\ prev'.op = "message"
            /\ prev'.k = prev.k
            /\ steps' # steps
            /\ socks[prev.k].kind = "audio"
            /\ ~isCleanedUpRef)
           => /\ aiState' = "speaking"
              /\ activeSources' = activeSources + 1 ]_vars

\* An unrecognised message arrived on the Audio Session socket while the state
\* was speaking with a source scheduled: all of it is still there and the socket
\* is still OPEN.
C29_Witness ==
    /\ prev.op = "unrecognised"
    /\ socks[prev.k].kind = "audio"
    /\ socks[prev.k].readyState = "OPEN"
    /\ aiState = "speaking"
    /\ activeSources = 1
    /\ reverts # {}

\* C30: when the latest inbound event is an audio_reply or a reasoning_complete,
\* aiState is listening again at some later time, unless a further inbound event
\* arrives first.
C30_RevertsToListening ==
    \A n \in 1..MaxSteps :
        (lastEvent.n = n /\ lastEvent.kind \in {"audio_reply", "reasoning_complete"})
        ~> (aiState = "listening" \/ lastEvent.n # n)

\* The timeout of the latest event, an audio_reply, has fired and brought aiState
\* back from speaking to listening; no other event arrived.
C30_Witness ==
    /\ lastEvent = [n |-> 1, kind |-> "audio_reply"]
    /\ reverts = {}
    /\ aiState = "listening"
    /\ activeSources = 1

\* This step handles a memory_stored event.
MemoryStoredStep == prev'.op = "memory_stored" /\ steps' # steps

\* C31: a memory_stored event changes neither aiState nor the playback state nor
\* any socket or socket reference, and schedules neither a revert timeout nor a
\* Frame Sampler timer.
C31_MemoryStoredChangesNothing ==
    [][ MemoryStoredStep
        => UNCHANGED << aiState, reverts, outCtx, activeSources, outCloses, isPlaying,
                        socks, audioWsRef, cognitionWsRef, cognitionStatus, timers,
                        frameIntervalRef >> ]_vars

\* A memory_stored event was handled by the running session while the state was
\* speaking with a source scheduled and a revert pending: all of it is still
\* there and both sockets are open.
C31_Witness ==
    /\ prev.op = "memory_stored"
    /\ ~isCleanedUpRef
    /\ socks[prev.k].kind = "cognition"
    /\ socks[prev.k].readyState = "OPEN"
    /\ ReadyState(socks, audioWsRef) = "OPEN"
    /\ aiState = "speaking"
    /\ activeSources = 1
    /\ reverts # {}

\* C32: after stop(), until the next chunk arrives, no chunk is scheduled, every
\* output context is closed, the cursor is 0 and isPlaying is false; and no chunk
\* is ever scheduled on a context that stop() has closed (such a chunk arrived
\* before the stop: a later one gets a new context).
C32_StopLeavesNothingScheduled ==
    /\ playCtxRef = 0
         => /\ activeSourcesRef = {}
            /\ \A x \in 1..Len(playCtxs) : playCtxs[x].state = "closed"
            /\ nextStartTimeRef = 0
            /\ ~playing
    /\ \A i \in activeSourcesRef : playCtxs[chunkLog[i].ctx].state # "closed"

\* The output contexts that are not closed.
OpenContexts == {x \in 1..Len(playCtxs) : playCtxs[x].state # "closed"}

\* C33: at most one output context is not closed, and it is the one the hook
\* refers to; a context is created only when there is none, by a playAudio call,
\* at the sample rate of that call's chunk and with the cursor at 0 (the chunk
\* starts at 0, or waits with the cursor at 0); a context keeps its sample rate,
\* and the hook's context changes only from one to none, by stop() closing it,
\* or from none to a new one.
C33_OneContextAtChunkRate ==
    /\ [](OpenContexts \subseteq {playCtxRef})
    /\ [][ /\ \A d \in Durations, r \in SampleRates, suspended \in BOOLEAN :
                (PlayAudioCall(d, r, suspended) /\ Len(playCtxs') > Len(playCtxs))
                => /\ playCtxRef = 0
                   /\ playCtxRef' = Len(playCtxs')
                   /\ playCtxs'[playCtxRef'].sampleRate = r
                   /\ IF Len(chunkLog') > Len(chunkLog)
                      THEN chunkLog'[Len(chunkLog')].start = 0
                      ELSE nextStartTimeRef' = 0
            /\ \A x \in 1..Len(playCtxs) :
                  playCtxs'[x].sampleRate = playCtxs[x].sampleRate
            /\ playCtxRef' # playCtxRef
                => \/ /\ playCtxRef' = 0
                      /\ playCtxs'[playCtxRef].state = "closed"
                      /\ nextStartTimeRef' = 0
                   \/ /\ playCtxRef = 0
                      /\ Len(playCtxs') = Len(playCtxs) + 1 ]_vars

\* After a stop() a chunk of another sample rate arrived: the first context is
\* closed and the second, the only open one, has the rate of that chunk; a chunk
\* is scheduled on each.
C33_Witness ==
    /\ Len(playCtxs) = 2
    /\ playCtxs[1].state = "closed"
    /\ playCtxs[2].state = "running"
    /\ playCtxs[1].sampleRate # playCtxs[2].sampleRate
    /\ playCtxRef = 2
    /\ \E i, j \in 1..Len(chunkLog) : chunkLog[i].ctx = 1 /\ chunkLog[j].ctx = 2

\* The scheduled chunks that have not ended: tracked (neither ended nor stopped),
\* on a context that is not closed, with their end ahead of its clock.
ChunksAhead ==
    {i \in activeSourcesRef :
        /\ playCtxs[chunkLog[i].ctx].state # "closed"
        /\ chunkLog[i].end > playCtxs[chunkLog[i].ctx].currentTime}

\* C34: isPlaying is true while a scheduled chunk has not ended, and false once
\* every scheduled chunk has ended or been stopped.
C34_PlayingIffChunkAhead ==
    /\ ChunksAhead # {} => playing
    /\ activeSourcesRef = {} => ~playing

\* Some microphone acquisition has failed.
MicFailed(ms) == \E m \in 1..Len(ms) : ms[m].stage = "failed"

\* This step is the failure of a pending microphone acquisition.
MicFailStep == \E m \in 1..Len(mics) : mics[m].stage # "failed" /\ mics'[m].stage = "failed"

\* C35: the failure of a microphone acquisition starts no other acquisition and
\* leaves the sockets, the Frame Sampler and aiState as they are; after a
\* failure, an acquisition is started only by a mute toggle, by start() or by
\* the open callback of the Audio Session socket of the latest session; and an
\* audio_reply is still handled.
C35_FailedAcquisitionNotRetried ==
    [][ /\ MicFailStep
           => /\ Len(mics') = Len(mics)
              /\ UNCHANGED << socks, audioWsRef, cognitionWsRef, cognitionStatus, timers,
                              frameIntervalRef, aiState, reverts >>
        /\ (MicFailed(mics) /\ Len(mics') > Len(mics))
           => \/ isMuted' # isMuted
              \/ StartStep
              \/ \E s \in 1..Len(socks) :
                    AudioOpenStep(s) /\ s = sessions[Len(sessions)].aws
        /\ (/\ MicFailed(mics)
            /\ prev'.op = "message"
            /\ steps' # steps
            /\ socks[prev'.k].kind = "audio"
            /\ ~isCleanedUpRef)
           => aiState' = "speaking" ]_vars

\* C36: what has been sent on a Cognition Session socket is nothing, the Session
\* Identity, or the Session Identity followed by one close envelope.
C36_CognitionSendsIdentityThenClose ==
    \A s \in 1..Len(socks) :
        socks[s].kind = "cognition"
        => socks[s].sent \in {<< >>, << "identity" >>, << "identity", "close" >>}

\* The user logged out of an open session, which sent the close envelope on the
\* Cognition Session socket, and the cleanup of the unmounted screen ran after
\* it: the envelope was sent once and close() called once.
C36_Witness ==
    /\ mode = "login"
    /\ prev.op = "teardown"
    /\ socks[sessions[prev.k].cws].sent = << "identity", "close" >>
    /\ socks[sessions[prev.k].cws].closeCalls = 1
    /\ socks[sessions[prev.k].aws].sent = << "identity", "close" >>

\* C38: on an Audio Session socket the close envelope is sent at most once and
\* nothing is sent after it.
C38_AudioCloseOnceAndLast ==
    \A s \in 1..Len(socks) :
        socks[s].kind = "audio"
        => /\ Count(socks[s].sent, "close") <= 1
           /\ \A i \in 1..Len(socks[s].sent) :
                 socks[s].sent[i] = "close" => i = Len(socks[s].sent)

\* The Frame Sampler sent a video frame, the user logged out, which sent the
\* close envelope on the Audio Session socket, and the timer, still registered,
\* has ticked since with the camera on and a frame to capture: nothing followed
\* the close envelope.
C38_Witness ==
    /\ prev.op = "frame"
    /\ timers[prev.k].active
    /\ sessions[timers[prev.k].sess].cam
    /\ FrameAvailable
    /\ socks[timers[prev.k].sock].sent = << "identity", "video", "close" >>
    /\ socks[timers[prev.k].sock].readyState = "CLOSING"

\* This step delivers the open event of socket s, which becomes OPEN (the step is
\* none of the operations prev names).
OpenStep(s) == prev'.op = "other" /\ socks[s].opened = "no" /\ socks'[s].opened = "yes"

\* C37: in a session that has not been cleaned up, whatever the state of the
\* other socket, the open callback of the Audio Session sends the identity,
\* registers the Frame Sampler timer and starts the microphone unless its
\* session was started muted, and an audio_reply is played and sets speaking;
\* the open callback of the Cognition Session sends the identity and reports
\* connected, a reasoning_complete sets thinking with a revert pending, and a
\* state_update sets its state.
C37_SessionsAreIndependent ==
    [][ ~isCleanedUpRef
        => /\ \A s \in 1..Len(socks) :
                 OpenStep(s)
                 => /\ socks'[s].sent = << "identity" >>
                    /\ socks[s].kind = "audio"
                         => /\ Len(timers') = Len(timers) + 1
                            /\ timers'[Len(timers')] = [sock |-> s, sess |-> socks[s].sess,
                                                        active |-> TRUE]
                            /\ frameIntervalRef' = Len(timers')
                            /\ Len(mics') = Len(mics) + 1 <=> ~sessions[socks[s].sess].muted
                    /\ socks[s].kind = "cognition" => cognitionStatus' = "connected"
           /\ (prev'.op = "message" /\ steps' # steps)
              => /\ socks[prev'.k].kind = "audio"
                      => /\ aiState' = "speaking"
                         /\ activeSources' = activeSources + 1
                         /\ isPlaying'
                 /\ (socks[prev'.k].kind = "cognition"
                     /\ SockMessage(prev'.k, "reasoning_complete"))
                      => /\ aiState' = "thinking"
                         /\ lastEvent'.n \in reverts'
                 /\ \A m \in {"state_update_thinking", "state_update_listening"} :
                       (socks[prev'.k].kind = "cognition" /\ SockMessage(prev'.k, m))
                       => aiState' = StateOf(m) ]_vars

\* The Cognition Session socket failed before it opened; the Audio Session of
\* the same run then opened, sent its identity, started the microphone and the
\* Frame Sampler, and has just handled an audio_reply.
C37_Witness ==
    /\ LiveRun(sessions) # 0
    /\ socks[cognitionWsRef].opened = "no"
    /\ socks[cognitionWsRef].readyState = "CLOSED"
    /\ prev.op = "message"
    /\ prev.k = audioWsRef
    /\ socks[audioWsRef].sent = << "identity" >>
    /\ frameIntervalRef # 0
    /\ timers[frameIntervalRef].sock = audioWsRef
    /\ \E m \in 1..Len(mics) : mics[m].sock = audioWsRef
    /\ aiState = "speaking"
    /\ activeSources = 1

\* The Cognition Session socket of the current session is OPEN with its identity
\* sent.
CognitionConnected ==
    /\ cognitionWsRef # 0
    /\ socks[cognitionWsRef].readyState = "OPEN"
    /\ socks[cognitionWsRef].sent = << "identity" >>

\* This step is the close or error callback of socket s.
ClosedStep(s) == socks[s].readyState # "CLOSED" /\ socks'[s].readyState = "CLOSED"

\* C39: cognitionStatus is connected exactly when the Cognition Session socket
\* of the current session is OPEN with its identity sent, and the close or
\* error callback of a socket of a session that has been cleaned up, which is
\* not the current Cognition Session socket, leaves cognitionStatus as it is.
C39_StatusTracksCurrentSocket ==
    /\ [](cognitionStatus = "connected" <=> CognitionConnected)
    /\ [][ \A s \in 1..Len(socks) :
              (/\ ClosedStep(s)
               /\ sessions[socks[s].sess].cleaned
               /\ s # cognitionWsRef)
              => cognitionStatus' = cognitionStatus ]_vars

\* C40: while no startCamera call is under way, isActive is true exactly when
\* the hook holds a camera stream; and a startCamera call that rejected has left
\* no stream in the hook and no track of its stream running.
C40_ActiveIffStreamHeld ==
    /\ (\A c \in 1..Len(cams) : ~CamPending(c)) => (camActive <=> camStreamRef # 0)
    /\ \A c \in 1..Len(cams) :
          cams[c].stage = "failed" => (camStreamRef # c /\ cams[c].tracks # "live")

====
